---- MODULE Spec2Model ----
(***************************************************************************)
(* The Kepler College chatbot of src/app.py: the input normalizer          *)
(* (clean_input), the match engine (find_best_match over the knowledge     *)
(* base that load_data built), the generative fallback                     *)
(* (generate_gemini_response) and the Streamlit script that drives them.   *)
(*                                                                         *)
(* A Python str is the sequence of its code points (Latin-1, 0..255), so   *)
(* that whitespace, letter case, punctuation and the lexicographic order   *)
(* of tokens are what they are in Python.  A Python value is a record      *)
(* [type, val]; only a value of type "str" carries characters.             *)
(***************************************************************************)
EXTENDS Integers, Sequences, FiniteSets, Bags, TLC

VARIABLES
    matcher,         \* the SequenceMatcher fuzzywuzzy imported: difflib or python-Levenshtein
    GEMINI_API_KEY,  \* os.getenv("GEMINI_API_KEY"): None or the key
    xlsx,            \* kepler_data.xlsx as it is on disk
    pc,              \* the position of the script (or of the function being called)
    data,            \* load_data()'s (cached) result: the knowledge base
    gemini_model,    \* load_model()'s (cached) result
    cached,          \* whether st.cache_data and st.cache_resource hold these results
    history,         \* st.session_state.history
    raw,             \* the text the form (or the caller) handed in
    user_question,   \* clean_input's result
    threshold,       \* find_best_match's threshold
    match,           \* find_best_match's result
    service,         \* what the generation service will do with the next request
    prompt,          \* the request generate_content was sent
    reply,           \* generate_gemini_response's result
    response,        \* the response of the script to the question
    log              \* every (question, result) find_best_match answered in this session

vars == <<matcher, GEMINI_API_KEY, xlsx, pc, data, gemini_model, cached, history, raw,
          user_question, threshold, match, service, prompt, reply, response, log>>

-----------------------------------------------------------------------------
(* Python values *)

Str(s) == [type |-> "str", val |-> s]

None == [type |-> "NoneType", val |-> <<>>]

NaN == [type |-> "float", val |-> <<>>]

isinstance_str(v) == v.type = "str"

-----------------------------------------------------------------------------
(* str methods and re.sub, on sequences of code points *)

\* str.isspace() / the regular expression class \s, for code points 0..255
IsSpace(c) == c \in {9, 10, 11, 12, 13, 28, 29, 30, 31, 32, 133, 160}

RECURSIVE lstrip(_)
lstrip(s) ==
    IF s = <<>> THEN <<>>
    ELSE IF IsSpace(Head(s)) THEN lstrip(Tail(s)) ELSE s

RECURSIVE rstrip(_)
rstrip(s) ==
    IF s = <<>> THEN <<>>
    ELSE IF IsSpace(s[Len(s)]) THEN rstrip(SubSeq(s, 1, Len(s) - 1)) ELSE s

strip(s) == rstrip(lstrip(s))

\* re.sub(r'\s+', ' ', s): every maximal run of whitespace becomes one space
RECURSIVE re_sub_spaces(_)
re_sub_spaces(s) ==
    IF s = <<>> THEN <<>>
    ELSE IF IsSpace(Head(s)) THEN <<32>> \o re_sub_spaces(lstrip(s))
    ELSE <<Head(s)>> \o re_sub_spaces(Tail(s))

\* str.lower(), for code points 0..255
LowerChar(c) ==
    IF c \in 65..90 \/ (c \in 192..222 /\ c # 215) THEN c + 32 ELSE c

lower(s) == [i \in 1..Len(s) |-> LowerChar(s[i])]

\* The length of the first whitespace-free run of s
RECURSIVE TokenLen(_)
TokenLen(s) ==
    IF s = <<>> \/ IsSpace(Head(s)) THEN 0 ELSE 1 + TokenLen(Tail(s))

\* str.split(): the whitespace-delimited tokens, in order
RECURSIVE split(_)
split(s) ==
    LET t == lstrip(s)
        n == TokenLen(t)
    IN  IF t = <<>> THEN <<>>
        ELSE <<SubSeq(t, 1, n)>> \o split(SubSeq(t, n + 1, Len(t)))

\* Python's order on str: lexicographic by code point
RECURSIVE StrLess(_, _)
StrLess(a, b) ==
    IF b = <<>> THEN FALSE
    ELSE IF a = <<>> THEN TRUE
    ELSE IF Head(a) # Head(b) THEN Head(a) < Head(b)
    ELSE StrLess(Tail(a), Tail(b))

RECURSIVE InsertSorted(_, _)
InsertSorted(t, ts) ==
    IF ts = <<>> THEN <<t>>
    ELSE IF StrLess(Head(ts), t) THEN <<Head(ts)>> \o InsertSorted(t, Tail(ts))
    ELSE <<t>> \o ts

\* sorted(tokens)
RECURSIVE sorted(_)
sorted(ts) ==
    IF ts = <<>> THEN <<>> ELSE InsertSorted(Head(ts), sorted(Tail(ts)))

\* " ".join(tokens)
RECURSIVE join(_)
join(ts) ==
    IF ts = <<>> THEN <<>>
    ELSE IF Len(ts) = 1 THEN Head(ts)
    ELSE Head(ts) \o <<32>> \o join(Tail(ts))

-----------------------------------------------------------------------------
(* clean_input *)

clean_input_no_strip(text) ==
    IF ~isinstance_str(text) THEN Str(<<>>)
    ELSE Str(re_sub_spaces(text.val))

clean_input(text) ==
    IF ~isinstance_str(text) THEN Str(<<>>)
    ELSE Str(re_sub_spaces(strip(text.val)))

-----------------------------------------------------------------------------
(* fuzz.token_sort_ratio, as fuzzywuzzy 0.18.0 computes it (imported at     *)
(* line 3, called at line 99).  Strings stay far below the 200 characters   *)
(* at which difflib starts to discard popular characters.                   *)

\* utils.asciidammit: drops code points 128..255
asciidammit(s) == SelectSeq(s, LAMBDA c : ~(c \in 128..255))

\* the regular expression class \w, for ASCII
IsWord(c) == c \in 48..57 \/ c \in 65..90 \/ c \in 97..122 \/ c = 95

\* StringProcessor.replace_non_letters_non_numbers_with_whitespace
replace_non_letters_non_numbers_with_whitespace(s) ==
    [i \in 1..Len(s) |-> IF IsWord(s[i]) THEN s[i] ELSE 32]

\* utils.full_process(s, force_ascii=True)
full_process(s) ==
    strip(lower(replace_non_letters_non_numbers_with_whitespace(asciidammit(s))))

\* fuzz._process_and_sort(s, force_ascii=True, full_process=True)
process_and_sort(s) == strip(join(sorted(split(full_process(s)))))

\* The length of the common run of a from i and b from j
RECURSIVE RunLen(_, _, _, _)
RunLen(a, b, i, j) ==
    IF i > Len(a) \/ j > Len(b) \/ a[i] # b[j] THEN 0
    ELSE 1 + RunLen(a, b, i + 1, j + 1)

Max(S) == CHOOSE x \in S : \A y \in S : y <= x

Min(S) == CHOOSE x \in S : \A y \in S : x <= y

\* difflib.SequenceMatcher.find_longest_match over the whole of a and b: the
\* longest common block <<i, j, k>>, the one starting earliest in a, and of
\* those the one starting earliest in b.  Both a and b are non-empty.
find_longest_match(a, b) ==
    LET k == Max({RunLen(a, b, i, j) : i \in 1..Len(a), j \in 1..Len(b)})
        i == Min({x \in 1..Len(a) : \E y \in 1..Len(b) : RunLen(a, b, x, y) = k})
        j == Min({y \in 1..Len(b) : RunLen(a, b, i, y) = k})
    IN  <<i, j, k>>

\* difflib.SequenceMatcher.get_matching_blocks, summed: the number of matched
\* characters (the longest block, then the same to its left and to its right)
RECURSIVE MatchedChars(_, _)
MatchedChars(a, b) ==
    IF a = <<>> \/ b = <<>> THEN 0
    ELSE LET m == find_longest_match(a, b)
             i == m[1]
             j == m[2]
             k == m[3]
         IN  IF k = 0 THEN 0
             ELSE k + MatchedChars(SubSeq(a, 1, i - 1), SubSeq(b, 1, j - 1))
                    + MatchedChars(SubSeq(a, i + k, Len(a)), SubSeq(b, j + k, Len(b)))

\* The length of a longest common subsequence: python-Levenshtein's ratio is
\* (lensum - ldist) / lensum with a substitution costing 2, so lensum - ldist
\* is twice this length
RECURSIVE LCS(_, _)
LCS(a, b) ==
    IF a = <<>> \/ b = <<>> THEN 0
    ELSE IF Head(a) = Head(b) THEN 1 + LCS(Tail(a), Tail(b))
    ELSE LET x == LCS(Tail(a), b)
             y == LCS(a, Tail(b))
         IN  IF x >= y THEN x ELSE y

\* utils.intr(100 * (2.0 * m / t)): int(round(.)), halves to the even integer
intr(m, t) ==
    LET n == 200 * m
        q == n \div t
        r == n % t
    IN  IF 2 * r < t THEN q
        ELSE IF 2 * r > t THEN q + 1
        ELSE IF q % 2 = 0 THEN q ELSE q + 1

\* fuzz.ratio: check_for_equivalence, then check_empty_string, then the matcher
ratio(s1, s2) ==
    IF s1 = s2 THEN 100
    ELSE IF Len(s1) = 0 \/ Len(s2) = 0 THEN 0
    ELSE IF matcher = "difflib" THEN intr(MatchedChars(s1, s2), Len(s1) + Len(s2))
    ELSE intr(LCS(s1, s2), Len(s1) + Len(s2))

token_sort_ratio(s1, s2) == ratio(process_and_sort(s1), process_and_sort(s2))

-----------------------------------------------------------------------------
(* find_best_match.  The knowledge base is the dict's items in insertion    *)
(* order: a sequence of [sheet, qa_pairs], qa_pairs a sequence of           *)
(* [Questions, Answers].  A best_match is <<answer, sheet>>, or NoMatch for *)
(* Python's None.  The result also says whether the call raised.            *)

NoMatch == <<>>

Returned(best_match, highest_score) ==
    [raised |-> FALSE, best_match |-> best_match, highest_score |-> highest_score]

Raised == [raised |-> TRUE, best_match |-> NoMatch, highest_score |-> 0]

\* LoopBody with the running maximum forgotten: the last entry at or over the
\* threshold wins
LoopBody_last_wins(acc, question, sheet, qa, t) ==
    LET q == qa.Questions IN
    IF acc.raised THEN acc
    ELSE IF ~isinstance_str(q) THEN acc
    ELSE IF ~isinstance_str(question) THEN Raised
    ELSE LET score == token_sort_ratio(lower(question.val), lower(q.val)) IN
         IF score > 0 /\ score >= t
         THEN Returned(<<qa.Answers, sheet>>, score)
         ELSE acc

\* LoopBody with score >= highest_score: a tie overwrites
LoopBody_ties_overwrite(acc, question, sheet, qa, t) ==
    LET q == qa.Questions IN
    IF acc.raised THEN acc
    ELSE IF ~isinstance_str(q) THEN acc
    ELSE IF ~isinstance_str(question) THEN Raised
    ELSE LET score == token_sort_ratio(lower(question.val), lower(q.val)) IN
         IF score >= acc.highest_score /\ score > 0 /\ score >= t
         THEN Returned(<<qa.Answers, sheet>>, score)
         ELSE acc

\* LoopBody with score > threshold: the boundary is exclusive
LoopBody_exclusive(acc, question, sheet, qa, t) ==
    LET q == qa.Questions IN
    IF acc.raised THEN acc
    ELSE IF ~isinstance_str(q) THEN acc
    ELSE IF ~isinstance_str(question) THEN Raised
    ELSE LET score == token_sort_ratio(lower(question.val), lower(q.val)) IN
         IF score > acc.highest_score /\ score > t
         THEN Returned(<<qa.Answers, sheet>>, score)
         ELSE acc

\* LoopBody without the isinstance check: q.lower() raises on a cell that is no str
LoopBody_no_isinstance(acc, question, sheet, qa, t) ==
    LET q == qa.Questions IN
    IF acc.raised THEN acc
    ELSE IF ~isinstance_str(q) \/ ~isinstance_str(question) THEN Raised
    ELSE LET score == token_sort_ratio(lower(question.val), lower(q.val)) IN
         IF score > acc.highest_score /\ score >= t
         THEN Returned(<<qa.Answers, sheet>>, score)
         ELSE acc

\* Lines 96-102, one pass of the inner loop.  question.lower() raises
\* AttributeError when the question is no str.
LoopBody(acc, question, sheet, qa, t) ==
    LET q == qa.Questions IN
    IF acc.raised THEN acc
    ELSE IF ~isinstance_str(q) THEN acc
    ELSE IF ~isinstance_str(question) THEN Raised
    ELSE LET score == token_sort_ratio(lower(question.val), lower(q.val)) IN
         IF score > acc.highest_score /\ score >= t
         THEN Returned(<<qa.Answers, sheet>>, score)
         ELSE acc

\* Line 95
RECURSIVE ForPairs(_, _, _, _, _)
ForPairs(acc, question, sheet, qa_pairs, t) ==
    IF qa_pairs = <<>> THEN acc
    ELSE ForPairs(LoopBody(acc, question, sheet, Head(qa_pairs), t),
                  question, sheet, Tail(qa_pairs), t)

\* Line 94
RECURSIVE ForSheets(_, _, _, _)
ForSheets(acc, question, items, t) ==
    IF items = <<>> THEN acc
    ELSE ForSheets(ForPairs(acc, question, Head(items).sheet, Head(items).qa_pairs, t),
                   question, Tail(items), t)

\* find_best_match with highest_score kept from the call before
find_best_match_stale(question, kb, t) ==
    ForSheets(Returned(NoMatch, match.highest_score), question, kb, t)

\* Lines 91-103
find_best_match(question, kb, t) == ForSheets(Returned(NoMatch, 0), question, kb, t)

\* Line 91: threshold=80, which is also the acceptance threshold of the caller
DefaultThreshold == 80

-----------------------------------------------------------------------------
(* load_data.  kepler_data.xlsx is [exists, readable, sheet]: sheet maps a    *)
(* sheet name to [columns, rows], columns telling whether the sheet has the   *)
(* Questions and Answers columns and can be read, rows its rows, each         *)
(* [Questions, Answers] of cells that are a str or empty (NaN).               *)

\* Line 29
sheets == <<"Draft", "Admissions", "Orientation", "Programs">>

\* Lines 61-62 on one cell that dropna kept: astype(str).str.strip().replace('', None)
CleanCell(c) ==
    IF ~isinstance_str(c) THEN c
    ELSE IF strip(c.val) = <<>> THEN None ELSE Str(strip(c.val))

IsNull(c) == c = NaN \/ c = None

\* Lines 60-63: dropna, the cells cleaned, dropna again
CleanRows(rows) ==
    LET kept == SelectSeq(rows, LAMBDA r : ~IsNull(r.Questions) /\ ~IsNull(r.Answers))
        cleaned == [i \in 1..Len(kept) |->
                       [Questions |-> CleanCell(kept[i].Questions),
                        Answers |-> CleanCell(kept[i].Answers)]]
    IN  SelectSeq(cleaned, LAMBDA r : ~IsNull(r.Questions) /\ ~IsNull(r.Answers))

\* Lines 31-72: the sheets in order; a sheet without the two columns, one that
\* raises, and one that is empty after cleaning are skipped
RECURSIVE LoadSheets(_, _)
LoadSheets(file, names) ==
    IF names = <<>> THEN <<>>
    ELSE LET sheet == Head(names)
             content == file.sheet[sheet]
             rest == LoadSheets(file, Tail(names))
         IN  IF ~content.columns THEN rest
             ELSE IF CleanRows(content.rows) = <<>> THEN rest
             ELSE <<[sheet |-> sheet, qa_pairs |-> CleanRows(content.rows)]>> \o rest

\* Lines 22-79: {} when the file is missing or cannot be opened
load_data(file) ==
    IF ~file.exists THEN <<>>
    ELSE IF ~file.readable THEN <<>>
    ELSE LoadSheets(file, sheets)

-----------------------------------------------------------------------------
(* load_model and generate_gemini_response.  A text the program shows is     *)
(* [kind, detail]: what it says and what it embeds.                          *)

GenerativeModel == [type |-> "GenerativeModel", val |-> <<>>]

\* Lines 83-88: the model, or None when its construction raises
load_model(constructed) == IF constructed THEN GenerativeModel ELSE None

\* Line 116
context == "Kepler College is a higher learning institution in Rwanda ..."

\* Line 117: the f-string holds the question and the context
Prompt(question, ctx) == [type |-> "str", question |-> question, context |-> ctx]

\* What the generation service does with a request: it answers, the call
\* raises (network, quota), or reading response.text raises (a blocked answer)
Services == {"answers", "generate_content raises", "response.text raises"}

\* The exception lines 117-119 raise, "" when they raise none: model is None
\* (AttributeError), the service fails, or the text cannot be read
Failure(model, svc) ==
    IF model = None THEN "AttributeError"
    ELSE IF svc = "answers" THEN "" ELSE svc

FunctionReturns(text) == [raised |-> FALSE, text |-> text]

FunctionRaises(e) == [raised |-> TRUE, text |-> [kind |-> "", detail |-> [exc |-> e]]]

\* generate_gemini_response with except ValueError: other errors leave the function
generate_gemini_response_narrow(model, question, svc) ==
    LET prompt_ == Prompt(question, context)
        e == Failure(model, svc)
    IN  IF e = "" THEN FunctionReturns([kind |-> "generated", detail |-> prompt_])
        ELSE IF e = "response.text raises"
        THEN FunctionReturns([kind |-> "Error generating response: ", detail |-> [exc |-> e]])
        ELSE FunctionRaises(e)

\* Lines 114-121: the generated text, or the text of the error
generate_gemini_response(model, question, svc) ==
    LET prompt_ == Prompt(question, context)
        e == Failure(model, svc)
    IN  IF e = "" THEN FunctionReturns([kind |-> "generated", detail |-> prompt_])
        ELSE FunctionReturns([kind |-> "Error generating response: ", detail |-> [exc |-> e]])

\* Line 118: the request generate_content receives, None when model is None
SentPrompt(model, question) ==
    IF model = None THEN None ELSE Prompt(question, context)

-----------------------------------------------------------------------------
(* Bounds and input sets *)

\* The longest generated input of clean_input
MaxLen == 3

\* The longest generated question of find_best_match
MaxQueryLen == 2

\* The most entries a generated knowledge base holds, over all its sheets
MaxEntries == 3

\* Every str of at most n characters of the alphabet
Strings(alphabet, n) == UNION {[1..k -> alphabet] : k \in 0..n}

\* space, tab, newline, no-break space, "A", "a"
CleanAlphabet == {32, 9, 10, 160, 65, 97}

\* "   What   programs?  \n"
SampleRaw ==
    <<32, 32, 32, 87, 104, 97, 116, 32, 32, 32, 112, 114, 111, 103, 114, 97, 109,
      115, 63, 32, 32, 10>>

\* "What programs?"
SampleCleaned ==
    <<87, 104, 97, 116, 32, 112, 114, 111, 103, 114, 97, 109, 115, 63>>

CleanInputs ==
    {Str(s) : s \in Strings(CleanAlphabet, MaxLen)} \cup {Str(SampleRaw), None, NaN}

\* space, "a"
QueryAlphabet == {32, 97}

\* "abcdefghijkxyz"
LongQuery == <<97, 98, 99, 100, 101, 102, 103, 104, 105, 106, 107, 120, 121, 122>>

\* "abcdefghijklmn"
LongEntry == <<97, 98, 99, 100, 101, 102, 103, 104, 105, 106, 107, 108, 109, 110>>

\* the generated questions, "ab", "b a", "b  A<tab>a", "abcdefghijkxyz", "B,a?",
\* "??", "z", and a value that is no str
Queries ==
    {Str(s) : s \in Strings(QueryAlphabet, MaxQueryLen)}
        \cup {Str(<<97, 98>>), Str(<<98, 32, 97>>), Str(<<98, 32, 32, 65, 9, 97>>),
              Str(LongQuery), Str(<<66, 44, 97, 63>>), Str(<<63, 63>>), Str(<<122>>),
              None}

\* "A b", "abcdefghijklmn", and a cell that is no str
EntryQuestions == {Str(<<65, 32, 98>>), Str(LongEntry), NaN}

Thresholds == {0, 50, 80, 100}

Matchers == {"difflib", "Levenshtein"}

\* The sheets of the generated knowledge bases, in the order load_data reads them
SheetSeqs == {<<>>, <<"Admissions">>, <<"Admissions", "Programs">>}

QuestionLists == UNION {[1..n -> EntryQuestions] : n \in 0..MaxEntries}

RECURSIVE TotalLen(_)
TotalLen(lists) ==
    IF lists = <<>> THEN 0 ELSE Len(Head(lists)) + TotalLen(Tail(lists))

\* The knowledge base with these sheets and these questions; the answer of an
\* entry is its rank in the traversal, so that no two entries share an answer
MakeKB(names, lists) ==
    [i \in 1..Len(names) |->
        [sheet |-> names[i],
         qa_pairs |-> [j \in 1..Len(lists[i]) |->
                          [Questions |-> lists[i][j],
                           Answers |-> TotalLen(SubSeq(lists, 1, i - 1)) + j]]]]

KnowledgeBases ==
    UNION {{MakeKB(names, lists) :
               lists \in {l \in [1..Len(names) -> QuestionLists] :
                             TotalLen(l) <= MaxEntries}} :
           names \in SheetSeqs}

\* No kepler_data.xlsx in the app directory
MissingFile ==
    [exists |-> FALSE, readable |-> FALSE,
     sheet |-> [n \in {sheets[i] : i \in 1..Len(sheets)} |-> [columns |-> FALSE, rows |-> <<>>]]]

\* A file pandas cannot open
CorruptFile == [MissingFile EXCEPT !.exists = TRUE]

\* Draft lacks the columns; Admissions holds " A b ", a blank question and an
\* empty one; Orientation holds only an empty answer; Programs holds "a B"
\* written with a no-break space
GoodFile ==
    [exists |-> TRUE, readable |-> TRUE,
     sheet |->
        [n \in {sheets[i] : i \in 1..Len(sheets)} |->
            IF n = "Admissions"
            THEN [columns |-> TRUE,
                  rows |-> <<[Questions |-> Str(<<32, 65, 32, 98, 32>>),
                              Answers |-> Str(<<120>>)],
                             [Questions |-> Str(<<32, 32>>), Answers |-> Str(<<121>>)],
                             [Questions |-> NaN, Answers |-> Str(<<122>>)]>>]
            ELSE IF n = "Orientation"
            THEN [columns |-> TRUE,
                  rows |-> <<[Questions |-> Str(<<97>>), Answers |-> NaN]>>]
            ELSE IF n = "Programs"
            THEN [columns |-> TRUE,
                  rows |-> <<[Questions |-> Str(<<97, 160, 66>>),
                              Answers |-> Str(<<112>>)]>>]
            ELSE [columns |-> FALSE, rows |-> <<>>]]]

Files == {MissingFile, CorruptFile, GoodFile}

\* What the user types in the form: "  b   a <newline>", "z", "  ", ""
FormInputs ==
    {Str(<<32, 32, 98, 32, 32, 32, 97, 32, 10>>), Str(<<122>>), Str(<<32, 32>>),
     Str(<<>>)}

\* The most questions a session answers
MaxQuestions == 2

-----------------------------------------------------------------------------
(* What the functions called leave alone *)

NoSession ==
    /\ GEMINI_API_KEY = None
    /\ xlsx = MissingFile
    /\ gemini_model = None
    /\ cached = FALSE
    /\ history = <<>>
    /\ service = "answers"
    /\ prompt = None
    /\ reply = None
    /\ response = None
    /\ log = {}

-----------------------------------------------------------------------------
(* clean_input alone: every input, cleaned, and the result cleaned again *)

InitClean ==
    /\ NoSession
    /\ matcher = "difflib"
    /\ data = <<>>
    /\ threshold = DefaultThreshold
    /\ match = Returned(NoMatch, 0)
    /\ raw \in CleanInputs
    /\ user_question = None
    /\ pc = "clean"

CallCleanInput ==
    /\ pc = "clean"
    /\ user_question' = clean_input(raw)
    /\ pc' = "cleaned"
    /\ UNCHANGED <<matcher, GEMINI_API_KEY, xlsx, data, gemini_model, cached, history, raw,
                   threshold, match, service, prompt, reply, response, log>>

CallCleanInputAgain ==
    /\ pc = "cleaned"
    /\ raw' = user_question
    /\ user_question' = clean_input(user_question)
    /\ pc' = "recleaned"
    /\ UNCHANGED <<matcher, GEMINI_API_KEY, xlsx, data, gemini_model, cached, history,
                   threshold, match, service, prompt, reply, response, log>>

NextClean == CallCleanInput \/ CallCleanInputAgain

SpecClean == InitClean /\ [][NextClean]_vars

-----------------------------------------------------------------------------
(* find_best_match alone: every question, knowledge base and threshold *)

InitMatch ==
    /\ NoSession
    /\ matcher \in Matchers
    /\ data \in KnowledgeBases
    /\ threshold \in Thresholds
    /\ raw = None
    /\ user_question \in Queries
    /\ match = Returned(NoMatch, 0)
    /\ pc = "match"

CallFindBestMatch ==
    /\ pc = "match"
    /\ match' = find_best_match(user_question, data, threshold)
    /\ pc' = "matched"
    /\ UNCHANGED <<matcher, GEMINI_API_KEY, xlsx, data, gemini_model, cached, history, raw,
                   user_question, threshold, service, prompt, reply, response, log>>

NextMatch == CallFindBestMatch

SpecMatch == InitMatch /\ [][NextMatch]_vars

-----------------------------------------------------------------------------
(* generate_gemini_response alone: every model, question and service behaviour *)

InitFallback ==
    /\ GEMINI_API_KEY = None
    /\ xlsx = MissingFile
    /\ cached = FALSE
    /\ history = <<>>
    /\ response = None
    /\ log = {}
    /\ matcher = "difflib"
    /\ data = <<>>
    /\ threshold = DefaultThreshold
    /\ match = Returned(NoMatch, 0)
    /\ raw = None
    /\ gemini_model \in {None, GenerativeModel}
    /\ user_question \in CleanInputs
    /\ service \in Services
    /\ prompt = None
    /\ reply = FunctionReturns([kind |-> "", detail |-> [exc |-> ""]])
    /\ pc = "fallback"

CallGenerateGeminiResponse ==
    /\ pc = "fallback"
    /\ prompt' = SentPrompt(gemini_model, user_question)
    /\ reply' = generate_gemini_response(gemini_model, user_question, service)
    /\ pc' = "fallback returned"
    /\ UNCHANGED <<matcher, GEMINI_API_KEY, xlsx, data, gemini_model, cached, history,
                   raw, user_question, threshold, match, service, response, log>>

NextFallback == CallGenerateGeminiResponse

SpecFallback == InitFallback /\ [][NextFallback]_vars

-----------------------------------------------------------------------------
(* The script.  Streamlit runs it from the top at every interaction; the     *)
(* session state (history) and the two caches outlive a run.  The source     *)
(* ends inside main at line 138, after clean_input is called; what main does *)
(* from there on follows sections 4.2 and 7 of the specification.            *)

Key == Str(<<107, 101, 121>>)

AnswerText(m) ==
    [kind |-> "answer", detail |-> [answer |-> m.best_match[1], source |-> m.best_match[2]]]

FallbackText(r) == [kind |-> "no close match in the dataset", detail |-> r.text]

UnavailableText == [kind |-> "no answer found, fallback unavailable", detail |-> [exc |-> ""]]

ReenterText == [kind |-> "please enter a question", detail |-> [exc |-> ""]]

Accepted(m) == m.best_match # NoMatch /\ m.highest_score >= DefaultThreshold

Turns(question, text) ==
    <<[role |-> "user", message |-> [kind |-> "question", detail |-> question]],
      [role |-> "bot", message |-> text]>>

Init ==
    /\ matcher \in Matchers
    /\ GEMINI_API_KEY \in {None, Key}
    /\ xlsx \in Files
    /\ pc = "start"
    /\ data = <<>>
    /\ gemini_model = None
    /\ cached = FALSE
    /\ history = <<>>
    /\ raw = Str(<<>>)
    /\ user_question = Str(<<>>)
    /\ threshold = DefaultThreshold
    /\ match = Returned(NoMatch, 0)
    /\ service = "answers"
    /\ prompt = None
    /\ reply = FunctionReturns([kind |-> "", detail |-> [exc |-> ""]])
    /\ response = None
    /\ log = {}

\* Lines 13-18: without the key the script reports an error and stops
ScriptStart ==
    /\ pc = "start"
    /\ pc' = IF GEMINI_API_KEY # None THEN "main" ELSE "stopped"
    /\ UNCHANGED <<matcher, GEMINI_API_KEY, xlsx, data, gemini_model, cached, history,
                   raw, user_question, threshold, match, service, prompt, reply,
                   response, log>>

\* Lines 129-130: both results are computed in the first run and cached
LoadResources ==
    /\ pc = "main"
    /\ IF cached
       THEN UNCHANGED <<data, gemini_model, cached>>
       ELSE /\ data' = load_data(xlsx)
            /\ \E constructed \in BOOLEAN : gemini_model' = load_model(constructed)
            /\ cached' = TRUE
    /\ pc' = "form"
    /\ UNCHANGED <<matcher, GEMINI_API_KEY, xlsx, history, raw, user_question,
                   threshold, match, service, prompt, reply, response, log>>

\* Lines 133-137: the form; an empty text is not handled
Submit ==
    /\ pc = "form"
    /\ Len(history) < 2 * MaxQuestions
    /\ \E text \in FormInputs :
          /\ raw' = text
          /\ pc' = IF text # Str(<<>>) THEN "clean" ELSE "start"
    /\ UNCHANGED <<matcher, GEMINI_API_KEY, xlsx, data, gemini_model, cached, history,
                   user_question, threshold, match, service, prompt, reply, response,
                   log>>

\* Line 138
Clean ==
    /\ pc = "clean"
    /\ user_question' = clean_input(raw)
    /\ pc' = "match"
    /\ UNCHANGED <<matcher, GEMINI_API_KEY, xlsx, data, gemini_model, cached, history,
                   raw, threshold, match, service, prompt, reply, response, log>>

\* A question that is empty once cleaned never reaches the match engine
Reject ==
    /\ pc = "match"
    /\ user_question = Str(<<>>)
    /\ response' = ReenterText
    /\ pc' = "start"
    /\ UNCHANGED <<matcher, GEMINI_API_KEY, xlsx, data, gemini_model, cached, history,
                   raw, user_question, threshold, match, service, prompt, reply, log>>

Match ==
    /\ pc = "match"
    /\ user_question # Str(<<>>)
    /\ match' = find_best_match(user_question, data, threshold)
    /\ log' = log \cup {[question |-> user_question, result |-> match']}
    /\ pc' = "decide"
    /\ UNCHANGED <<matcher, GEMINI_API_KEY, xlsx, data, gemini_model, cached, history,
                   raw, user_question, threshold, service, prompt, reply, response>>

\* The stored answer, annotated with its sheet; no fallback
AnswerFromData ==
    /\ pc = "decide"
    /\ Accepted(match)
    /\ response' = AnswerText(match)
    /\ history' = history \o Turns(user_question, response')
    /\ pc' = "start"
    /\ UNCHANGED <<matcher, GEMINI_API_KEY, xlsx, data, gemini_model, cached, raw,
                   user_question, threshold, match, service, prompt, reply, log>>

\* The fallback's text, whatever the service does
AnswerFromFallback ==
    /\ pc = "decide"
    /\ ~Accepted(match)
    /\ gemini_model # None
    /\ \E svc \in Services :
          /\ service' = svc
          /\ prompt' = SentPrompt(gemini_model, user_question)
          /\ reply' = generate_gemini_response(gemini_model, user_question, svc)
    /\ response' = IF reply'.raised THEN None ELSE FallbackText(reply')
    /\ history' = IF reply'.raised THEN history
                  ELSE history \o Turns(user_question, response')
    /\ pc' = IF reply'.raised THEN "crashed" ELSE "start"
    /\ UNCHANGED <<matcher, GEMINI_API_KEY, xlsx, data, gemini_model, cached, raw,
                   user_question, threshold, match, log>>

\* The fixed message when load_model gave no model
AnswerUnavailable ==
    /\ pc = "decide"
    /\ ~Accepted(match)
    /\ gemini_model = None
    /\ response' = UnavailableText
    /\ history' = history \o Turns(user_question, response')
    /\ pc' = "start"
    /\ UNCHANGED <<matcher, GEMINI_API_KEY, xlsx, data, gemini_model, cached, raw,
                   user_question, threshold, match, service, prompt, reply, log>>

Next ==
    \/ ScriptStart
    \/ LoadResources
    \/ Submit
    \/ Clean
    \/ Reject
    \/ Match
    \/ AnswerFromData
    \/ AnswerFromFallback
    \/ AnswerUnavailable

Spec == Init /\ [][Next]_vars

-----------------------------------------------------------------------------
(* The entries of the knowledge base as find_best_match meets them *)

\* The entries of kb in traversal order, each with its sheet
RECURSIVE Flatten(_)
Flatten(kb) ==
    IF kb = <<>> THEN <<>>
    ELSE [j \in 1..Len(Head(kb).qa_pairs) |->
             [sheet |-> Head(kb).sheet, qa |-> Head(kb).qa_pairs[j]]]
         \o Flatten(Tail(kb))

Entries == Flatten(data)

\* The ranks of the entries whose question is a str
StrEntries == {i \in 1..Len(Entries) : isinstance_str(Entries[i].qa.Questions)}

\* The score line 99 gives entry i for the question asked (a str)
ScoreOf(i) ==
    token_sort_ratio(lower(user_question.val), lower(Entries[i].qa.Questions.val))

\* The scores of the entries whose question is a str
Scores == [i \in StrEntries |-> ScoreOf(i)]

\* The best of these scores, 0 when there is no entry to score
Best(sc) == Max({sc[i] : i \in DOMAIN sc} \cup {0})

BestScore == Best(Scores)

PairOf(i) == <<Entries[i].qa.Answers, Entries[i].sheet>>

\* find_best_match has returned for a question that is a str
Matched == pc = "matched" /\ isinstance_str(user_question)

\* find_best_match has returned for a question the caller lets through: a str
\* that is not blank
Asked == Matched /\ strip(user_question.val) # <<>>

\* C1 as stated: whenever some entry with a str question scores >= threshold,
\* highest_score is the maximum score over all entries of all sheets and
\* best_match is the (answer, sheet) of an entry attaining it.
C1_GlobalMaximum_AnyThreshold ==
    Asked =>
        LET sc == Scores IN
        (\E i \in DOMAIN sc : sc[i] >= threshold) =>
            /\ ~match.raised
            /\ match.highest_score = Best(sc)
            /\ \E i \in DOMAIN sc : sc[i] = Best(sc) /\ match.best_match = PairOf(i)

\* C1 amended: whenever some entry with a str question has a positive score
\* >= threshold, highest_score is the maximum score over all entries of all
\* sheets (one global match) and best_match is the (answer, sheet) of an entry
\* attaining it, the sheet being the one holding that entry.
C1_GlobalMaximum ==
    Matched =>
        LET sc == Scores IN
        (\E i \in DOMAIN sc : sc[i] >= threshold /\ sc[i] > 0) =>
            /\ ~match.raised
            /\ match.highest_score = Best(sc)
            /\ \E i \in DOMAIN sc : sc[i] = Best(sc) /\ match.best_match = PairOf(i)

\* The best entry is in the second sheet and beats an accepted entry of the first
C1_Witness ==
    /\ Matched
    /\ Len(data) = 2
    /\ LET sc == Scores IN
        \E i, j \in DOMAIN sc :
          /\ Entries[i].sheet = "Admissions" /\ Entries[j].sheet = "Programs"
          /\ threshold <= sc[i] /\ 0 < sc[i] /\ sc[i] < sc[j]
          /\ sc[j] = Best(sc)
          /\ match = Returned(PairOf(j), sc[j])

\* C2: with threshold 80 and a best score of 79 over the knowledge base,
\* find_best_match returns no match together with the highest score 79.
C2_BelowThresholdScoreReturned ==
    (Asked /\ threshold = 80) =>
        (BestScore = 79 => match = Returned(NoMatch, 79))

\* C3 as stated: when entries tie at the top score and that score is >=
\* threshold, the first of them in traversal order is returned.
C3_FirstWinsTies_AnyScore ==
    Asked =>
        LET sc == Scores
            top == Best(sc)
            tied == {i \in DOMAIN sc : sc[i] = top}
        IN  (top >= threshold /\ Cardinality(tied) >= 2) =>
                match = Returned(PairOf(Min(tied)), top)

\* C3 amended: when entries tie at a positive top score that is >= threshold,
\* the first of them in traversal order (sheets in the mapping's order,
\* entries in list order) is returned; a later entry with the same score does
\* not replace it, whether in the same sheet or in another.
C3_FirstWinsTies ==
    Matched =>
        LET sc == Scores
            top == Best(sc)
            tied == {i \in DOMAIN sc : sc[i] = top}
        IN  (top >= threshold /\ top > 0 /\ Cardinality(tied) >= 2) =>
                match = Returned(PairOf(Min(tied)), top)

\* Two entries of different sheets tie at the top, and the first is returned
C3_Witness ==
    /\ Matched
    /\ LET sc == Scores
           top == Best(sc)
       IN  /\ top >= threshold /\ top > 0
           /\ \E i, j \in DOMAIN sc :
                 /\ i < j /\ Entries[i].sheet # Entries[j].sheet
                 /\ sc[i] = top /\ sc[j] = top
                 /\ \A k \in DOMAIN sc : k < i => sc[k] < top
                 /\ match.best_match = PairOf(i)

\* C4: the boundary is inclusive: for a threshold t >= 1, a best score of
\* exactly t is accepted, with highest_score = t.
C4_InclusiveBoundary ==
    (Matched /\ threshold >= 1) =>
        (BestScore = threshold =>
            /\ ~match.raised
            /\ match.best_match # NoMatch
            /\ match.highest_score = threshold)

\* Threshold 80, best score exactly 80, accepted
C4_Witness ==
    /\ Matched
    /\ threshold = DefaultThreshold
    /\ match.best_match # NoMatch /\ match.highest_score = 80
    /\ BestScore = 80

\* C5: for every question (a str or not) and every threshold, a knowledge base
\* without sheets, with sheets without entries, or whose entries all have a
\* question that is no str, gives (None, 0), and nothing is raised.
C5_NothingToMatch ==
    /\ load_data(MissingFile) = <<>>
    /\ load_data(CorruptFile) = <<>>
    /\ (pc = "matched" /\ (data = load_data(MissingFile) \/ StrEntries = {})) =>
          match = Returned(NoMatch, 0)

\* Two sheets holding only cells that are no str, asked with a value that is no str
C5_Witness ==
    /\ pc = "matched"
    /\ Len(data) = 2 /\ Len(Entries) >= 2 /\ StrEntries = {}
    /\ user_question = None
    /\ match = Returned(NoMatch, 0)

\* The orders of a sequence of tokens
Orders(ts) ==
    {[i \in 1..Len(ts) |-> ts[p[i]]] :
        p \in {f \in [1..Len(ts) -> 1..Len(ts)] :
                  \A i, j \in 1..Len(ts) : i # j => f[i] # f[j]}}

\* The whitespace-delimited tokens of s, lower-cased, with their multiplicities
RECURSIVE BagOf(_)
BagOf(ts) ==
    IF ts = <<>> THEN EmptyBag ELSE SetToBag({Head(ts)}) (+) BagOf(Tail(ts))

TokenBag(s) == BagOf(split(lower(s)))

\* C7: the score of line 99 does not depend on the order of the tokens: the
\* question scores 100 against itself and against every permutation of its
\* whitespace-delimited tokens; and an entry whose question has the tokens
\* of the question asked, in any order and letter case, scores 100 and is
\* accepted at any threshold <= 100.
C7_OrderInsensitive ==
    pc = "decide" =>
        /\ \A p \in Orders(split(user_question.val)) :
              /\ token_sort_ratio(lower(user_question.val), lower(join(p))) = 100
              /\ token_sort_ratio(lower(user_question.val), lower(user_question.val)) = 100
        /\ \A i \in StrEntries :
              TokenBag(Entries[i].qa.Questions.val) = TokenBag(user_question.val) =>
                  /\ ScoreOf(i) = 100
                  /\ threshold <= 100 =>
                        (match.best_match # NoMatch /\ match.highest_score = 100)

\* C6: clean_input never raises; an input that is no str gives the empty
\* str; for a str the result has no whitespace at either end, no whitespace
\* but single spaces, never two spaces in a row, and the tokens of the input
\* in their order and letter case; cleaning the result again changes
\* nothing; "   What   programs?  <newline>" gives "What programs?".
C6_CleanInput ==
    /\ pc = "cleaned" =>
          LET r == user_question.val IN
          /\ isinstance_str(user_question)
          /\ ~isinstance_str(raw) => r = <<>>
          /\ isinstance_str(raw) =>
                /\ r # <<>> => (~IsSpace(r[1]) /\ ~IsSpace(r[Len(r)]))
                /\ \A i \in 1..Len(r) : IsSpace(r[i]) => r[i] = 32
                /\ \A i \in 1..(Len(r) - 1) : ~(r[i] = 32 /\ r[i + 1] = 32)
                /\ split(r) = split(raw.val)
                /\ SelectSeq(r, LAMBDA c : ~IsSpace(c))
                      = SelectSeq(raw.val, LAMBDA c : ~IsSpace(c))
          /\ raw = Str(SampleRaw) => user_question = Str(SampleCleaned)
    /\ pc = "recleaned" => user_question = raw

\* The sample of the specification, cleaned
C6_Witness ==
    /\ pc = "cleaned"
    /\ raw = Str(SampleRaw)
    /\ user_question = Str(SampleCleaned)

\* C8: when the fallback is unavailable (no key, or load_model gave no
\* model) the program stays usable: it is never halted for that, and a
\* question is answered from the knowledge base when it matches and with the
\* fixed 'unavailable' message when it does not.
C8_UsableWithoutFallback ==
    (GEMINI_API_KEY = None \/ (cached /\ gemini_model = None)) =>
        /\ pc # "stopped"
        /\ (pc = "start" /\ history # <<>>) =>
              history[Len(history)].message
                  = IF Accepted(match) THEN AnswerText(match) ELSE UnavailableText

\* C9: generate_gemini_response raises nothing and returns a text: the
\* generated text when the service answers, and otherwise a text that embeds
\* the reason of the failure; the request it sends holds the fixed context
\* and the question it was given.
C9_FallbackNeverRaises ==
    pc = "fallback returned" =>
        /\ ~reply.raised
        /\ (gemini_model # None /\ service = "answers") =>
              reply.text = [kind |-> "generated",
                            detail |-> Prompt(user_question, context)]
        /\ (gemini_model # None /\ service # "answers") =>
              reply.text = [kind |-> "Error generating response: ",
                            detail |-> [exc |-> service]]
        /\ gemini_model = None =>
              reply.text = [kind |-> "Error generating response: ",
                            detail |-> [exc |-> "AttributeError"]]
        /\ gemini_model # None =>
              (prompt.question = user_question /\ prompt.context = context)

\* The request was sent and the call raised: the reason comes back as text
C9_Witness ==
    /\ pc = "fallback returned"
    /\ gemini_model = GenerativeModel
    /\ service = "generate_content raises"
    /\ user_question = Str(SampleRaw)
    /\ prompt = Prompt(user_question, context)
    /\ ~reply.raised
    /\ reply.text.detail = [exc |-> "generate_content raises"]

====
